---------------------------- MODULE Spec2Model ----------------------------
(* State-machine model of the WaveshareEpaperPhotoframe scripts:            *)
(*   dither.py          load_act_palette, process_image                    *)
(*   vitrail_o3.py      load_palette, apply_palette, overlay_edges,        *)
(*                      stained_glass_effect                               *)
(*   vitrail-deepseek.py load_color_palette, nearest search in Lab         *)
EXTENDS Integers, Sequences, FiniteSets, TLC

VARIABLES pc, data, palette, err,
          image, quantized, requantized, indices, labels,
          edges, result_img, written,
          orig_width, orig_height, target_width, target_height,
          new_height, crop_positions, i, outputs

fileVars   == <<data, palette, err>>
quantVars  == <<image, quantized, requantized, indices, labels>>
glassVars  == <<edges, result_img, written>>
layoutVars == <<orig_width, orig_height, target_width, target_height,
                new_height, crop_positions, i, outputs>>
vars == <<pc, fileVars, quantVars, glassVars, layoutVars>>

-----------------------------------------------------------------------------
(* Bounds of the model *)

MaxSeed == 3      \* number of distinct byte patterns per file length
MaxSrc  == 7      \* small source widths/heights 1..MaxSrc
MaxTgt  == 3      \* small target widths/heights 1..MaxTgt
MaxPal  == 3      \* palettes of 0..MaxPal colours in the quantization runs
MaxPix  == 2      \* images of 1..MaxPix pixels

-----------------------------------------------------------------------------
(* Generic helpers *)

Min(S) == CHOOSE x \in S : \A y \in S : x <= y

RECURSIVE SortedSeq(_)
\* sorted(set(...)): the elements of S in ascending order
SortedSeq(S) == IF S = {} THEN <<>>
                ELSE <<Min(S)>> \o SortedSeq(S \ {Min(S)})

Range(s) == {s[n] : n \in 1..Len(s)}

\* data[a:b] of Python, 0-based half-open slice of a sequence
Slice(s, a, b) ==
    LET e == IF b > Len(s) THEN Len(s) ELSE b
    IN  IF e <= a THEN <<>> ELSE [n \in 1..(e - a) |-> s[a + n]]

\* contents of an .act file of the given length; the pattern depends on seed
ActFile(len, seed) ==
    [n \in 1..len |-> (n * (6 + seed) + (n \div 5) * 3 + (n \div 300) * 91) % 256]

-----------------------------------------------------------------------------
(* dither.py : load_act_palette *)

\* returns <<status, value>>: the flat list data[:768] or a ValueError
load_act_palette(bytes) ==
    IF Len(bytes) < 768
    THEN [ok |-> FALSE, err |-> "ValueError", val |-> <<>>]
    ELSE [ok |-> TRUE, err |-> "", val |-> Slice(bytes, 0, 768)]

-----------------------------------------------------------------------------
(* vitrail_o3.py : load_palette (vitrail_mistral.py holds the same function) *)

\* np.frombuffer(d).reshape((n, 3)): colour k is bytes [3k, 3k+3)
Triples(d) == [n \in 1..(Len(d) \div 3) |-> <<d[3 * n - 2], d[3 * n - 1], d[3 * n]>>]

\* variant: only the two documented lengths are accepted
load_palette_strict(bytes) ==
    IF Len(bytes) \notin {768, 772}
    THEN [ok |-> FALSE, err |-> "ValueError", val |-> <<>>]
    ELSE [ok |-> TRUE, err |-> "", val |-> Triples(Slice(bytes, 0, 768))]

\* variant: a 772-byte file loses its first 4 bytes instead of its last 4
load_palette_tail(bytes) ==
    LET d == IF Len(bytes) = 772 THEN Slice(bytes, 4, 772) ELSE bytes
    IN  IF Len(d) % 3 # 0
        THEN [ok |-> FALSE, err |-> "ValueError", val |-> <<>>]
        ELSE [ok |-> TRUE, err |-> "", val |-> Triples(d)]

load_palette(bytes) ==
    LET d == IF Len(bytes) = 772 THEN Slice(bytes, 0, 768) ELSE bytes
    IN  IF Len(d) % 3 # 0
        THEN [ok |-> FALSE, err |-> "ValueError", val |-> <<>>]
        ELSE [ok |-> TRUE, err |-> "", val |-> Triples(d)]

(* vitrail-deepseek.py : load_color_palette *)
load_color_palette(bytes) ==
    LET d == IF Len(bytes) = 772 THEN Slice(bytes, 0, 768) ELSE bytes
    IN  IF Len(d) % 3 # 0
        THEN [ok |-> FALSE, err |-> "ValueError", val |-> <<>>]
        ELSE [ok |-> TRUE, err |-> "", val |-> Triples(d)]

-----------------------------------------------------------------------------
(* dither.py : process_image, the arithmetic *)

RECURSIVE Pow2(_)
Pow2(n) == IF n <= 0 THEN 1 ELSE 2 * Pow2(n - 1)

RECURSIVE Pow2Mod(_, _)
\* 2^k mod w
Pow2Mod(k, w) == IF k = 0 THEN 1 % w ELSE (2 * Pow2Mod(k - 1, w)) % w

RECURSIVE FloorLog2Up(_, _, _)
\* least e >= e0 with n < 2^(e+1) * d
FloorLog2Up(n, d, e) == IF n < 2 * d * Pow2(e) THEN e ELSE FloorLog2Up(n, d, e + 1)

RECURSIVE FloorLog2Down(_, _, _)
\* for n < d: greatest e < 0 with 2^e * d <= n, searched downwards (m = -e)
FloorLog2Down(n, d, m) == IF n * Pow2(m) >= d THEN 0 - m ELSE FloorLog2Down(n, d, m + 1)

\* e with 2^e * d <= n < 2^(e+1) * d, the binary exponent of the double n/d
FloorLog2(n, d) == IF n >= d THEN FloorLog2Up(n, d, 0) ELSE FloorLog2Down(n, d, 1)

\* int(h * (tw / w)) in IEEE-754 double arithmetic, for positive integers.
\* q = fl(tw / w) has 53 significant bits: q = tw/w + d / (w * 2^k) with
\* k = 52 - FloorLog2(tw, w) and d the signed rounding remainder.  The
\* product h * q is rounded once more and truncated.  When h*tw/w is not an
\* integer it is at least 1/w away from one, far more than the two rounding
\* errors, so the truncation is the floor of the exact quotient.  When it is
\* an integer r, the rounded product is r unless q was rounded down (d < 0)
\* and h*|d| exceeds half the spacing of doubles just below r.
IntFloatMulDiv(h, tw, w) ==
    LET r   == (h * tw) \div w
        f   == (h * tw) % w
        e0  == FloorLog2(tw, w)
        k   == 52 - e0
        rem == ((tw % w) * Pow2Mod(k, w)) % w
        d   == IF 2 * rem < w THEN 0 - rem ELSE w - rem
        j   == FloorLog2(r, 1)
        a   == h * (0 - d)
        b   == w * Pow2(j - e0)
        keeps == IF r = Pow2(j) THEN 4 * a <= b ELSE 2 * a <= b
    IN  IF f # 0 THEN r
        ELSE IF d >= 0 THEN r
        ELSE IF keeps THEN r ELSE r - 1

\* Python round(n / d) for n >= 0, d > 0: nearest integer, ties to even.
\* (n / d is a correctly rounded double; for d = 3 it is never within 1/6 of
\* a half-integer, so the double division does not change the result.)
PyRoundDiv(n, d) ==
    LET q == n \div d
        r == n % d
    IN  IF 2 * r < d THEN q
        ELSE IF 2 * r > d THEN q + 1
        ELSE IF q % 2 = 0 THEN q ELSE q + 1

\* variant: the height rounded to the nearest integer instead of truncated
NewHeight_rounded(ow, oh, tw) == PyRoundDiv(oh * tw, ow)

\* line 58: new_height = int(orig_height * (target_width / orig_width))
NewHeight(ow, oh, tw) == IntFloatMulDiv(oh, tw, ow)

\* variant: the last window starts one row too low
CropPositions_past(y_max) ==
    SortedSeq({0, PyRoundDiv(y_max, 3), PyRoundDiv(2 * y_max, 3), y_max + 1})

\* line 72: sorted(set([0, round(y_max/3), round(2*y_max/3), y_max]))
CropPositions(y_max) ==
    SortedSeq({0, PyRoundDiv(y_max, 3), PyRoundDiv(2 * y_max, 3), y_max})

\* line 75
suffixes == <<"top", "upper", "lower", "bottom">>

output_base == "img"

\* variant: without the special case of a single crop
CropName_labelled(k, num_crops) ==
    output_base \o "_" \o suffixes[k + 1] \o ".bmp"

\* lines 81-85: the name of the crop with 0-based index k among num_crops
CropName(k, num_crops) ==
    IF num_crops = 1 THEN output_base \o ".bmp"
    ELSE output_base \o "_" \o suffixes[k + 1] \o ".bmp"

-----------------------------------------------------------------------------
(* Inputs of process_image *)

SmallDims == {<<ow, oh, tw, th>> : ow \in 1..MaxSrc, oh \in 1..MaxSrc,
                                   tw \in 1..MaxTgt, th \in 1..MaxTgt}

\* the cases of the specification and two cases where the double product
\* falls just below an exact integer quotient
NamedDims == { <<1600, 1200, 800, 480>>, <<800, 300, 800, 480>>,
               <<800, 480, 800, 480>>, <<800, 481, 800, 480>>,
               <<800, 482, 800, 480>>, <<29, 145, 800, 480>>,
               <<11, 55, 3, 15>>, <<11, 55, 3, 14>>, <<49, 49, 1, 1>> }

LayoutDims == SmallDims \cup NamedDims

\* N-color.act as found by process_image: too short, exact, legacy
LayoutFiles == {ActFile(767, 1), ActFile(768, 1), ActFile(772, 1)}

NoFile == <<>>

\* an absent image (cv2.imread returning None, or a buffer not yet computed)
NoImg == [h |-> 0, w |-> 0, px |-> <<>>]

IdleQuant  == image = NoImg /\ quantized = NoImg /\ requantized = NoImg
              /\ indices = <<>> /\ labels = <<>>
IdleGlass  == edges = <<>> /\ result_img = NoImg /\ written = NoImg
IdleLayout == orig_width = 0 /\ orig_height = 0 /\ target_width = 0
              /\ target_height = 0 /\ new_height = 0
              /\ crop_positions = <<>> /\ i = 0 /\ outputs = <<>>

-----------------------------------------------------------------------------
(* dither.py : process_image as a sequence of steps *)

InitLayout ==
    /\ pc = "open"
    /\ \E dm \in LayoutDims :
         /\ orig_width = dm[1] /\ orig_height = dm[2]
         /\ target_width = dm[3] /\ target_height = dm[4]
    /\ data \in LayoutFiles
    /\ palette = <<>> /\ err = ""
    /\ new_height = 0 /\ crop_positions = <<>> /\ i = 0 /\ outputs = <<>>
    /\ IdleQuant /\ IdleGlass

\* lines 53-62: open, compute new_height, load the palette
Prepare ==
    /\ pc = "open"
    /\ new_height' = NewHeight(orig_width, orig_height, target_width)
    /\ LET p == load_act_palette(data)
       IN  /\ palette' = p.val
           /\ err' = p.err
           /\ pc' = IF p.ok THEN "branch" ELSE "error"
    /\ UNCHANGED <<data, quantVars, glassVars, orig_width, orig_height,
                   target_width, target_height, crop_positions, i, outputs>>

\* lines 64-76: tall enough, proportional resize and crop positions
ResizeProportional ==
    /\ pc = "branch"
    /\ new_height >= target_height
    /\ crop_positions' = CropPositions(new_height - target_height)
    /\ i' = 0
    /\ pc' = "crops"
    /\ UNCHANGED <<fileVars, quantVars, glassVars, orig_width, orig_height,
                   target_width, target_height, new_height, outputs>>

\* lines 78-86: one iteration of the crop loop
CropStep ==
    /\ pc = "crops"
    /\ i < Len(crop_positions)
    /\ LET y == crop_positions[i + 1]
       IN  outputs' = Append(outputs,
              [name |-> CropName(i, Len(crop_positions)),
               kind |-> "crop",
               box  |-> <<0, y, target_width, y + target_height>>,
               from |-> <<target_width, new_height>>,
               size |-> <<target_width - 0, (y + target_height) - y>>])
    /\ i' = i + 1
    /\ UNCHANGED <<pc, fileVars, quantVars, glassVars, orig_width,
                   orig_height, target_width, target_height, new_height,
                   crop_positions>>

\* lines 88-91: the forced resize of the proportionally resized image
ForcedAfterCrops ==
    /\ pc = "crops"
    /\ i = Len(crop_positions)
    /\ outputs' = Append(outputs,
          [name |-> output_base \o "_resized.bmp",
           kind |-> "resized",
           box  |-> <<0, 0, target_width, new_height>>,
           from |-> <<target_width, new_height>>,
           size |-> <<target_width, target_height>>])
    /\ pc' = "done"
    /\ UNCHANGED <<fileVars, quantVars, glassVars, orig_width, orig_height,
                   target_width, target_height, new_height, crop_positions, i>>

\* lines 93-98: too short, forced resize of the original image
ForcedOnly ==
    /\ pc = "branch"
    /\ new_height < target_height
    /\ outputs' = Append(outputs,
          [name |-> output_base \o ".bmp",
           kind |-> "forced",
           box  |-> <<0, 0, orig_width, orig_height>>,
           from |-> <<orig_width, orig_height>>,
           size |-> <<target_width, target_height>>])
    /\ pc' = "done"
    /\ UNCHANGED <<fileVars, quantVars, glassVars, orig_width, orig_height,
                   target_width, target_height, new_height, crop_positions, i>>

NextLayout == Prepare \/ ResizeProportional \/ CropStep
              \/ ForcedAfterCrops \/ ForcedOnly

SpecLayout == InitLayout /\ [][NextLayout]_vars

-----------------------------------------------------------------------------
(* Properties of process_image *)

Abs(x) == IF x < 0 THEN 0 - x ELSE x

\* the integers nearest to the exact quotient n / d
NearestInts(n, d) == {q \in 0..((n \div d) + 1) : 2 * Abs(d * q - n) <= d}

ExactFloor == (orig_height * target_width) \div orig_width

CropsOf(outs) == {k \in 1..Len(outs) : outs[k].kind = "crop"}

\* the offsets {0, round(yMax/3), round(2 yMax/3), yMax} of the plan
PlanOffsets(yMax) == {0, yMax} \cup NearestInts(yMax, 3)
                     \cup NearestInts(2 * yMax, 3)

LabelName(k) == output_base \o "_" \o suffixes[k] \o ".bmp"

TallDone == pc = "done" /\ new_height >= target_height

\* C5 as stated: the proportional height is round(sourceH * targetW /
\* sourceW), and the tall-enough decision is taken on that rounded value.
C5_RoundedHeight ==
    pc # "open" =>
      /\ new_height \in NearestInts(orig_height * target_width, orig_width)
      /\ pc = "done" => (outputs[1].kind = "forced" <=> new_height < target_height)

\* C5 amended: the proportional height is the double-precision product
\* sourceH * (targetW / sourceW) truncated towards zero.  It is the floor of
\* the exact quotient, or one less than it when the quotient is an exact
\* integer and the floating product falls just below it; the tall-enough
\* decision is taken on this truncated value.
C5_TruncatedHeight ==
    pc # "open" =>
      /\ new_height \in {ExactFloor, ExactFloor - 1}
      /\ new_height # ExactFloor => (orig_height * target_width) % orig_width = 0
      /\ pc = "crops" => new_height >= target_height
      /\ pc = "done" => (outputs[1].kind = "forced" <=> new_height < target_height)

\* a finished run where rounding to nearest would have reached the target
\* height but the truncated height did not, so the forced resize was taken
C5_Witness ==
    /\ pc = "done"
    /\ 2 * ((orig_height * target_width) % orig_width) >= orig_width
    /\ new_height = ExactFloor
    /\ new_height + 1 = target_height
    /\ outputs[1].kind = "forced"

\* the part of the plan that C6 states in both forms: one crop per distinct
\* offset in ascending order, then exactly one resized entry, distinct names
PlanShape ==
    /\ \A k \in 1..Len(outputs) :
         outputs[k].kind = "resized" => k = Len(outputs) /\ pc = "done"
    /\ TallDone =>
         LET n == Cardinality(PlanOffsets(new_height - target_height))
         IN  /\ Len(outputs) = n + 1
             /\ CropsOf(outputs) = 1..n
             /\ {outputs[k].box[2] : k \in 1..n}
                  = PlanOffsets(new_height - target_height)
             /\ \A k \in 1..(n - 1) : outputs[k].box[2] < outputs[k + 1].box[2]
             /\ outputs[n + 1].kind = "resized"
             /\ outputs[n + 1].name = output_base \o "_resized.bmp"
             /\ \A k, m \in 1..(n + 1) : k # m => outputs[k].name # outputs[m].name
    /\ (TallDone /\ orig_width = 1600 /\ orig_height = 1200
          /\ target_width = 800 /\ target_height = 480) =>
         /\ Len(outputs) = 5
         /\ [k \in 1..4 |-> outputs[k].box[2]] = <<0, 40, 80, 120>>

\* C6 as stated: the k-th crop carries the k-th label of top, upper, lower,
\* bottom also when fewer than 4 distinct offsets remain, including the
\* single crop when yMax = 0; then one resized entry; names distinct.
C6_LabelsAlways ==
    /\ PlanShape
    /\ TallDone => \A k \in CropsOf(outputs) : outputs[k].name = LabelName(k)

\* C6 amended: as stated when 2, 3 or 4 distinct offsets remain; when a
\* single offset remains (yMax = 0) the single crop carries no label and is
\* named <base>.bmp, followed by the resized entry <base>_resized.bmp.
C6_LabelsUnlessSingle ==
    /\ PlanShape
    /\ TallDone =>
         \A k \in CropsOf(outputs) :
            outputs[k].name = IF Cardinality(CropsOf(outputs)) = 1
                              THEN output_base \o ".bmp" ELSE LabelName(k)

\* a finished plan with yMax = 0: one unlabelled crop and the resized entry
C6_Witness ==
    /\ TallDone
    /\ new_height = target_height
    /\ Len(outputs) = 2
    /\ outputs[1].kind = "crop" /\ outputs[1].name = output_base \o ".bmp"
    /\ outputs[2].kind = "resized"

\* C7: every produced image has targetW x targetH pixels; every crop window
\* (0, y, targetW, y + targetH) lies inside the proportionally resized
\* image; when the proportional height is below targetH exactly one forced
\* resize of the original image is produced and no crop.
C7_TargetSized ==
    /\ \A k \in 1..Len(outputs) :
         /\ outputs[k].size = <<target_width, target_height>>
         /\ outputs[k].kind = "crop" =>
              /\ outputs[k].from = <<target_width, new_height>>
              /\ outputs[k].box[1] = 0 /\ outputs[k].box[3] = target_width
              /\ outputs[k].box[4] = outputs[k].box[2] + target_height
              /\ 0 <= outputs[k].box[2]
              /\ outputs[k].box[4] <= new_height
    /\ (pc = "done" /\ new_height < target_height) =>
         /\ Len(outputs) = 1
         /\ outputs[1].kind = "forced"
         /\ outputs[1].from = <<orig_width, orig_height>>

\* a finished plan of four crops whose last window ends on the last row
C7_Witness ==
    /\ pc = "done"
    /\ Len(outputs) = 5
    /\ outputs[4].kind = "crop"
    /\ outputs[4].box[2] > 0
    /\ outputs[4].box[4] = new_height

-----------------------------------------------------------------------------
(* The three palette loaders applied to a file *)

FileLens == {0, 3, 24, 765, 767, 768, 769, 771, 772, 774, 1000}

PaletteFiles == {ActFile(len, seed) : len \in FileLens, seed \in 1..MaxSeed}

InitFiles ==
    /\ pc = "file"
    /\ data \in PaletteFiles
    /\ palette = <<>> /\ err = ""
    /\ IdleQuant /\ IdleGlass /\ IdleLayout

Loaded(p, name) ==
    /\ pc = "file"
    /\ palette' = p.val
    /\ err' = p.err
    /\ pc' = name
    /\ UNCHANGED <<data, quantVars, glassVars, layoutVars>>

LoadPalette      == Loaded(load_palette(data), "load_palette")
LoadColorPalette == Loaded(load_color_palette(data), "load_color_palette")
LoadActPalette   == Loaded(load_act_palette(data), "load_act_palette")

NextFiles == LoadPalette \/ LoadColorPalette \/ LoadActPalette

SpecFiles == InitFiles /\ [][NextFiles]_vars

-----------------------------------------------------------------------------
(* Properties of the palette loaders *)

TripleLoaders == {"load_palette", "load_color_palette"}
AllLoaders    == TripleLoaders \cup {"load_act_palette"}

\* colour k (0-based) of a loaded palette: a row of the (n, 3) array, or
\* entries [3k, 3k+3) of the flat list handed to putpalette
ColourOf(k) == IF pc \in TripleLoaders THEN palette[k + 1]
               ELSE <<palette[3 * k + 1], palette[3 * k + 2], palette[3 * k + 3]>>

NumColours == IF pc \in TripleLoaders THEN Len(palette) ELSE Len(palette) \div 3

\* C3 as stated: every loader fails for every byte length that is neither
\* 768 nor 772, and returns no palette for such an input.
C3_OnlyTwoLengths ==
    (pc \in AllLoaders /\ Len(data) \notin {768, 772}) =>
        err # "" /\ palette = <<>>

\* C3 amended: load_palette and load_color_palette fail exactly when the
\* byte length is not 772 and not a multiple of 3 (767, 769, 1000 fail; 3,
\* 24, 771 load as length/3 colours); load_act_palette fails exactly when
\* the byte length is below 768 (3, 24, 767 fail; 769, 771, 1000 load the
\* first 768 bytes).  A failing load returns no palette.
C3_LoaderLengths ==
    /\ pc \in TripleLoaders =>
         /\ err # "" <=> (Len(data) # 772 /\ Len(data) % 3 # 0)
         /\ err # "" => palette = <<>>
         /\ (err = "" /\ Len(data) # 772) => Len(palette) * 3 = Len(data)
    /\ pc = "load_act_palette" =>
         /\ err # "" <=> Len(data) < 768
         /\ err # "" => palette = <<>>
         /\ err = "" => Len(palette) = 768

\* load_palette has accepted a 771-byte file as 257 colours
C3_Witness ==
    /\ pc = "load_palette"
    /\ Len(data) = 771
    /\ err = ""
    /\ Len(palette) = 257

\* C4: a 768-byte file loads as exactly 256 colours, colour k being bytes
\* [3k, 3k+3) in file order; a 772-byte file loads as the same 256 colours
\* of its first 768 bytes, whatever its 4 trailing bytes are.
C4_FileOrder ==
    (pc \in AllLoaders /\ Len(data) \in {768, 772}) =>
        /\ err = ""
        /\ NumColours = 256
        /\ \A k \in 0..255 :
             ColourOf(k) = <<data[3 * k + 1], data[3 * k + 2], data[3 * k + 3]>>

\* load_palette has loaded a 772-byte file whose trailing bytes differ from
\* its leading bytes
C4_Witness ==
    /\ pc = "load_palette"
    /\ Len(data) = 772
    /\ NumColours = 256
    /\ <<data[769], data[770], data[771]>> # <<data[1], data[2], data[3]>>
    /\ ColourOf(255) = <<data[766], data[767], data[768]>>

-----------------------------------------------------------------------------
(* vitrail_o3.py : apply_palette *)

black == <<0, 0, 0>>
white == <<255, 255, 255>>

\* a value stored in a signed 16-bit integer (numpy int16 wraps silently)
Wrap16(x) == ((x + 32768) % 65536) - 32768

\* a value stored in an unsigned 8-bit integer
WrapU8(x) == x % 256

\* lines 43-44 for one pixel and one palette entry: the int16 differences,
\* their squares still in int16, and the sum accumulated by np.sum in the
\* 64-bit default integer
SqDist16(p, c) ==
    LET sq(ch) == Wrap16(Wrap16(p[ch] - c[ch]) * Wrap16(p[ch] - c[ch]))
    IN  sq(1) + sq(2) + sq(3)

\* row of `distances` for one pixel
Distances16(p, pal) == [k \in 1..Len(pal) |-> SqDist16(p, pal[k])]

\* np.argmin: 0-based index of the first occurrence of the minimum
ArgMin(d) == Min({k \in 1..Len(d) : \A m \in 1..Len(d) : d[k] <= d[m]}) - 1

\* line 46 for the whole flattened image
Indices16(img, pal) == [n \in 1..Len(img.px) |-> ArgMin(Distances16(img.px[n], pal))]

\* lines 38-50; np.argmin raises ValueError on an empty palette axis
apply_palette(img, pal) ==
    IF Len(pal) = 0
    THEN [ok |-> FALSE, err |-> "ValueError", idx |-> <<>>, val |-> NoImg]
    ELSE LET idx == Indices16(img, pal)
         IN  [ok |-> TRUE, err |-> "", idx |-> idx,
              val |-> [h |-> img.h, w |-> img.w,
                       px |-> [n \in 1..Len(img.px) |->
                                 [ch \in 1..3 |-> WrapU8(pal[idx[n] + 1][ch])]]]]

(* vitrail-deepseek.py : the nearest search on uint8 Lab arrays *)

\* line 60 for one pixel and one palette entry: uint8 differences, their
\* squares still in uint8, summed by np.sum in the 64-bit unsigned integer
SqDistU8(p, c) ==
    LET sq(ch) == WrapU8(WrapU8(p[ch] - c[ch]) * WrapU8(p[ch] - c[ch]))
    IN  sq(1) + sq(2) + sq(3)

\* lines 58-63: labels of all pixels
LabLabels(img, pal) ==
    [n \in 1..Len(img.px) |->
        ArgMin([k \in 1..Len(pal) |-> SqDistU8(img.px[n], pal[k])])]

-----------------------------------------------------------------------------
(* Quantization of small images against small palettes *)

Colours == {black, white, <<74, 74, 74>>, <<255, 0, 73>>}

PalettesUpTo(n) == UNION {[1..m -> Colours] : m \in 0..n}

Shapes == {hw \in (1..MaxPix) \X (1..MaxPix) : hw[1] * hw[2] <= MaxPix}

Images == UNION {{[h |-> hw[1], w |-> hw[2], px |-> p] :
                     p \in [1..(hw[1] * hw[2]) -> Colours]} : hw \in Shapes}

InitQuant ==
    /\ pc = "input"
    /\ image \in Images
    /\ palette \in PalettesUpTo(MaxPal)
    /\ data = NoFile /\ err = ""
    /\ quantized = NoImg /\ requantized = NoImg
    /\ indices = <<>> /\ labels = <<>>
    /\ IdleGlass /\ IdleLayout

\* apply_palette(image, palette)
Quantize ==
    /\ pc = "input"
    /\ LET q == apply_palette(image, palette)
       IN  /\ quantized' = q.val
           /\ indices' = q.idx
           /\ err' = q.err
           /\ pc' = IF q.ok THEN "quantized" ELSE "raised"
    /\ UNCHANGED <<data, palette, image, requantized, labels, glassVars, layoutVars>>

\* apply_palette(apply_palette(image, palette), palette)
Requantize ==
    /\ pc = "quantized"
    /\ requantized' = apply_palette(quantized, palette).val
    /\ pc' = "requantized"
    /\ UNCHANGED <<fileVars, image, quantized, indices, labels, glassVars, layoutVars>>

\* the nearest search of image_to_custom_palette on Lab data
LabNearest ==
    /\ pc = "input"
    /\ IF Len(palette) = 0
       THEN labels' = <<>> /\ err' = "ValueError" /\ pc' = "raised"
       ELSE labels' = LabLabels(image, palette) /\ err' = "" /\ pc' = "labelled"
    /\ UNCHANGED <<data, palette, image, quantized, requantized, indices,
                   glassVars, layoutVars>>

NextQuant == Quantize \/ Requantize \/ LabNearest

SpecQuant == InitQuant /\ [][NextQuant]_vars

-----------------------------------------------------------------------------
(* Properties of the nearest-colour search *)

\* squared Euclidean distance, computed without wraparound
TrueDist(p, c) ==
    (p[1] - c[1]) * (p[1] - c[1]) + (p[2] - c[2]) * (p[2] - c[2])
      + (p[3] - c[3]) * (p[3] - c[3])

\* least 0-based index among the entries at minimum true distance
FirstNearest(p, pal) ==
    Min({k \in 1..Len(pal) :
            \A m \in 1..Len(pal) : TrueDist(p, pal[k]) <= TrueDist(p, pal[m])}) - 1

\* C1: the entry chosen by apply_palette for each pixel minimises the true
\* squared Euclidean distance, and the distance used for ranking is never
\* negative, for all channel differences 0..255.
C1_MinimisesTrueDistance ==
    pc = "quantized" =>
      \A n \in 1..Len(image.px) :
        /\ \A k \in 1..Len(palette) :
             /\ TrueDist(image.px[n], quantized.px[n])
                  <= TrueDist(image.px[n], palette[k])
             /\ SqDist16(image.px[n], palette[k]) >= 0
        /\ quantized.px[n] = palette[indices[n] + 1]

\* C2: direct-mode quantization is idempotent: an image whose pixels are all
\* palette entries is returned unchanged, and quantizing a quantized image
\* again changes nothing.
C2_Idempotent ==
    /\ (pc \in {"quantized", "requantized"}
          /\ \A n \in 1..Len(image.px) : image.px[n] \in Range(palette))
         => quantized = image
    /\ pc = "requantized" => requantized = quantized

\* C8: the nearest-colour search returns an index in [0, N), the lowest one
\* among the entries at equal minimum distance from the pixel.
C8_LowestIndexOnTies ==
    /\ pc = "quantized" =>
         \A n \in 1..Len(image.px) :
           /\ indices[n] \in 0..(Len(palette) - 1)
           /\ indices[n] = FirstNearest(image.px[n], palette)
    /\ pc = "labelled" =>
         \A n \in 1..Len(image.px) :
           /\ labels[n] \in 0..(Len(palette) - 1)
           /\ labels[n] = FirstNearest(image.px[n], palette)

-----------------------------------------------------------------------------
(* vitrail_o3.py : detect_edges, overlay_edges, stained_glass_effect *)

\* the bytes of a palette file holding the given colours in order
Flatten(cols) == [n \in 1..(3 * Len(cols)) |-> cols[((n - 1) \div 3) + 1][((n - 1) % 3) + 1]]

EPaper7 == <<black, white, <<0, 255, 0>>, <<0, 0, 255>>, <<255, 0, 0>>,
             <<255, 255, 0>>, <<255, 128, 0>>>>

\* palette files met by stained_glass_effect: 7 colours, 8 colours with
\* black, 9 colours whose only black is the ninth, 8 colours without black,
\* a length that is not a multiple of 3, and a 256-colour legacy file
GlassFiles == { Flatten(EPaper7),
                Flatten(EPaper7 \o <<<<74, 74, 74>>>>),
                Flatten(SubSeq(EPaper7, 2, 7) \o <<<<74, 74, 74>>, <<255, 0, 73>>, black>>),
                ActFile(24, 1), ActFile(25, 1), ActFile(772, 1) }

\* lines 59-60: cv2.cvtColor and cv2.Canny are library code; the mask has
\* the shape of the image, its entries are 0 or 255, and an image of one
\* single colour has no gradient and therefore an all-zero mask
EdgeMasks(img) ==
    IF Cardinality(Range(img.px)) <= 1
    THEN {[n \in 1..Len(img.px) |-> 0]}
    ELSE [1..Len(img.px) -> {0, 255}]

\* lines 71-73: result[edges != 0] = [0, 0, 0]
overlay_edges(img, e) ==
    [h |-> img.h, w |-> img.w,
     px |-> [n \in 1..Len(img.px) |-> IF e[n] # 0 THEN <<0, 0, 0>> ELSE img.px[n]]]

InitGlass ==
    /\ pc = "imread"
    /\ image \in Images \cup {NoImg}
    /\ data \in GlassFiles
    /\ palette = <<>> /\ err = ""
    /\ quantized = NoImg /\ requantized = NoImg
    /\ indices = <<>> /\ labels = <<>>
    /\ IdleGlass /\ IdleLayout

\* lines 90-93: an unreadable image is reported by print and the function returns
ReadImage ==
    /\ pc = "imread"
    /\ pc' = IF image = NoImg THEN "returned" ELSE "load"
    /\ UNCHANGED <<fileVars, quantVars, glassVars, layoutVars>>

\* line 96: load_palette raises ValueError, which is not caught
GlassLoadPalette ==
    /\ pc = "load"
    /\ LET p == load_palette(data)
       IN  /\ palette' = p.val
           /\ err' = p.err
           /\ pc' = IF p.ok THEN "check" ELSE "raised"
    /\ UNCHANGED <<data, quantVars, glassVars, layoutVars>>

\* lines 98-103: fewer than 8 colours is reported by print and the function
\* returns; more than 8 are cut to the first 8
GlassCheckPalette ==
    /\ pc = "check"
    /\ IF Len(palette) < 8
       THEN pc' = "returned" /\ palette' = palette
       ELSE pc' = "quantize" /\ palette' = SubSeq(palette, 1, 8)
    /\ UNCHANGED <<data, err, quantVars, glassVars, layoutVars>>

\* line 106
GlassQuantize ==
    /\ pc = "quantize"
    /\ LET q == apply_palette(image, palette)
       IN  /\ quantized' = q.val
           /\ indices' = q.idx
           /\ err' = q.err
           /\ pc' = IF q.ok THEN "edges" ELSE "raised"
    /\ UNCHANGED <<data, palette, image, requantized, labels, glassVars, layoutVars>>

\* line 109
GlassDetectEdges ==
    /\ pc = "edges"
    /\ edges' \in EdgeMasks(quantized)
    /\ pc' = "overlay"
    /\ UNCHANGED <<fileVars, quantVars, result_img, written, layoutVars>>

\* line 112
GlassOverlay ==
    /\ pc = "overlay"
    /\ result_img' = overlay_edges(quantized, edges)
    /\ pc' = "imwrite"
    /\ UNCHANGED <<fileVars, quantVars, edges, written, layoutVars>>

\* lines 115-116
GlassWrite ==
    /\ pc = "imwrite"
    /\ written' = result_img
    /\ pc' = "saved"
    /\ UNCHANGED <<fileVars, quantVars, edges, result_img, layoutVars>>

NextGlass == ReadImage \/ GlassLoadPalette \/ GlassCheckPalette \/ GlassQuantize
             \/ GlassDetectEdges \/ GlassOverlay \/ GlassWrite

SpecGlass == InitGlass /\ [][NextGlass]_vars

-----------------------------------------------------------------------------
(* Properties of the stained-glass pipeline *)

\* the palette as parsed from the file, before the 8-colour cut
ParsedPalette == load_palette(data).val

GlassEnded == pc \in {"returned", "raised", "saved"}

\* C9: with fewer than 8 palette entries the operation fails with a
\* PaletteTooSmall error returned to the caller and writes no output; with
\* more than 8, exactly the first 8 entries in file order are used and every
\* quantized pixel is one of them.
C9_EightColours ==
    /\ (GlassEnded /\ image # NoImg /\ load_palette(data).ok
          /\ Len(ParsedPalette) < 8) =>
         /\ pc = "raised"
         /\ err = "PaletteTooSmall"
         /\ written = NoImg
    /\ (pc \in {"edges", "overlay", "imwrite", "saved"}
          /\ Len(ParsedPalette) > 8) =>
         /\ palette = SubSeq(ParsedPalette, 1, 8)
         /\ \A n \in 1..Len(quantized.px) : quantized.px[n] \in Range(palette)

\* the palette entry nearest to black, black itself when it is an entry
OutlineColour(pal) == pal[FirstNearest(black, pal) + 1]

\* C10: every pixel of the final stylized output, edge pixels included, is
\* one of the palette entries used for quantization; the outline colour is
\* black only if black is such an entry, otherwise the entry nearest to it.
C10_FixedPalette ==
    pc = "saved" =>
      \A n \in 1..Len(written.px) :
        /\ written.px[n] \in Range(palette)
        /\ edges[n] # 0 => written.px[n] = OutlineColour(palette)

=============================================================================
